---- MODULE Spec2Model ----
(***************************************************************************)
(* The collection-and-word persistence manager of skribbl-words-tool:      *)
(* WordCollectionManager of src/utils/word_handling.py, which keeps a      *)
(* mapping collection name -> list of words in one JSON file and runs      *)
(* every operation as read whole file / change in memory / write whole     *)
(* file.                                                                   *)
(*                                                                         *)
(* A Python str is a sequence of one-character strings, so that lower(),   *)
(* the code-point order of list.sort() and the escaping of json.dump are   *)
(* computed and not assumed.  The file is the text json.dump wrote, and a  *)
(* read parses that text again.  A Python dict is a sequence of key/value  *)
(* records in insertion order with no key twice.                           *)
(***************************************************************************)
EXTENDS Integers, Sequences, FiniteSets, TLC

\* ------------------------------------------------------------------ bounds

\* The longest word list an add_word call may leave; longer ones are not tried.
MaxWords == 2

\* The characters with a meaning of their own in the JSON text.
QUOTE == "\""
BACKSLASH == "\\"
NEWLINE == "\n"
SPACE == " "

\* The words and the collection names the callers pass: two spellings of one
\* letter, an upper-case letter that comes after it in the alphabet, and the
\* empty word, a str like any other that the manager itself never rejects.
\* The names differ in case only and hold a character json.dump escapes.
Words ==
    { <<>>, <<"a">>, <<"A">>, <<"B">> }

Names ==
    { <<"a", QUOTE>>, <<"A", QUOTE>> }

\* ------------------------------------------------------------ Python str

\* str.lower(), one character.
LowerChar(ch) ==
    CASE ch = "A" -> "a"
      [] ch = "B" -> "b"
      [] OTHER -> ch

\* str.lower().
Lower(s) ==
    [i \in 1..Len(s) |-> LowerChar(s[i])]

\* ord(): the code point of a character.
Ord(ch) ==
    CASE ch = NEWLINE -> 10
      [] ch = SPACE -> 32
      [] ch = QUOTE -> 34
      [] ch = "," -> 44
      [] ch = ":" -> 58
      [] ch = "A" -> 65
      [] ch = "B" -> 66
      [] ch = "[" -> 91
      [] ch = BACKSLASH -> 92
      [] ch = "]" -> 93
      [] ch = "a" -> 97
      [] ch = "b" -> 98
      [] ch = "n" -> 110
      [] ch = "{" -> 123
      [] ch = "}" -> 125

\* str.__lt__: code point by code point, a proper prefix first.
RECURSIVE StrLess(_, _)
StrLess(s, t) ==
    IF t = <<>> THEN FALSE
    ELSE IF s = <<>> THEN TRUE
    ELSE IF Ord(Head(s)) # Ord(Head(t)) THEN Ord(Head(s)) < Ord(Head(t))
    ELSE StrLess(Tail(s), Tail(t))

\* ----------------------------------------------------------- Python list

\* One step of list.sort(): x put into an ordered list, after its equals.
RECURSIVE InsertSorted(_, _)
InsertSorted(x, l) ==
    IF l = <<>> THEN <<x>>
    ELSE IF StrLess(x, Head(l)) THEN <<x>> \o l
    ELSE <<Head(l)>> \o InsertSorted(x, Tail(l))

\* list.sort() of a list of str: the whole list is put in order, whatever
\* order it had.
RECURSIVE ListSort(_)
ListSort(l) ==
    IF l = <<>> THEN <<>>
    ELSE InsertSorted(l[Len(l)], ListSort(SubSeq(l, 1, Len(l) - 1)))

\* list.remove(x): the first entry equal to x is taken out.
RECURSIVE ListRemove(_, _)
ListRemove(l, x) ==
    IF l = <<>> THEN <<>>
    ELSE IF Head(l) = x THEN Tail(l)
    ELSE <<Head(l)>> \o ListRemove(Tail(l), x)

\* ----------------------------------------------------------- Python dict

\* key in data
HasKey(data, key) ==
    \E i \in 1..Len(data) : data[i].k = key

\* data[key], for a key of data.
DictGet(data, key) ==
    data[CHOOSE i \in 1..Len(data) : data[i].k = key].v

\* data[key] = val: a present key keeps its place, a new one goes last.
DictSet(data, key, val) ==
    IF HasKey(data, key)
    THEN [i \in 1..Len(data) |->
            IF data[i].k = key THEN [k |-> key, v |-> val] ELSE data[i]]
    ELSE Append(data, [k |-> key, v |-> val])

\* list(data.keys())
DictKeys(data) ==
    [i \in 1..Len(data) |-> data[i].k]

\* ------------------------------------------------------------- json.dump

\* indent=4 of the json.dump call.
IndentWidth == 4

\* The indentation of nesting level n.
Indent(n) ==
    [i \in 1..(IndentWidth * n) |-> SPACE]

\* A dump that escapes nothing, which C10 rules out.
EscapeCharRaw(ch) ==
    <<ch>>

\* The escaping of one character inside a JSON string: the quotation mark,
\* the backslash and the line feed are written as two characters.
EscapeChar(ch) ==
    IF ch = QUOTE THEN <<BACKSLASH, QUOTE>>
    ELSE IF ch = BACKSLASH THEN <<BACKSLASH, BACKSLASH>>
    ELSE IF ch = NEWLINE THEN <<BACKSLASH, "n">>
    ELSE <<ch>>

RECURSIVE EscapeStr(_)
EscapeStr(s) ==
    IF s = <<>> THEN <<>> ELSE EscapeChar(Head(s)) \o EscapeStr(Tail(s))

\* A str as a JSON string.
EncodeStr(s) ==
    <<QUOTE>> \o EscapeStr(s) \o <<QUOTE>>

\* The items of a list from the i-th on, one per line at nesting level 2.
RECURSIVE EncodeItems(_, _)
EncodeItems(l, i) ==
    IF i > Len(l) THEN <<>>
    ELSE (IF i > 1 THEN <<",">> ELSE <<>>) \o <<NEWLINE>> \o Indent(2)
         \o EncodeStr(l[i]) \o EncodeItems(l, i + 1)

\* A list of str as a JSON array.
EncodeList(l) ==
    IF l = <<>> THEN <<"[", "]">>
    ELSE <<"[">> \o EncodeItems(l, 1) \o <<NEWLINE>> \o Indent(1) \o <<"]">>

\* The members of a dict from the i-th on, one per line at nesting level 1.
RECURSIVE EncodeMembers(_, _)
EncodeMembers(data, i) ==
    IF i > Len(data) THEN <<>>
    ELSE (IF i > 1 THEN <<",">> ELSE <<>>) \o <<NEWLINE>> \o Indent(1)
         \o EncodeStr(data[i].k) \o <<":", SPACE>> \o EncodeList(data[i].v)
         \o EncodeMembers(data, i + 1)

\* json.dump(data, f, indent=4) of a dict of lists of str: the text written.
json_dump(data) ==
    IF data = <<>> THEN <<"{", "}">>
    ELSE <<"{">> \o EncodeMembers(data, 1) \o <<NEWLINE, "}">>

\* ------------------------------------------------------------- json.load

\* A value that did not parse.
Fail == [ok |-> FALSE, pos |-> 0, val |-> <<>>]

\* The first position from i on that holds no white space.
RECURSIVE SkipWs(_, _)
SkipWs(t, i) ==
    IF i <= Len(t) /\ t[i] \in {SPACE, NEWLINE} THEN SkipWs(t, i + 1) ELSE i

\* A JSON string from the character after its opening quotation mark.  A
\* backslash starts an escape; a bare line feed inside a string does not
\* decode.
RECURSIVE ScanString(_, _, _)
ScanString(t, i, acc) ==
    IF i > Len(t) THEN Fail
    ELSE IF t[i] = QUOTE THEN [ok |-> TRUE, pos |-> i + 1, val |-> acc]
    ELSE IF t[i] = BACKSLASH
    THEN IF i + 1 <= Len(t) /\ t[i + 1] \in {QUOTE, BACKSLASH}
         THEN ScanString(t, i + 2, Append(acc, t[i + 1]))
         ELSE IF i + 1 <= Len(t) /\ t[i + 1] = "n"
         THEN ScanString(t, i + 2, Append(acc, NEWLINE))
         ELSE Fail
    ELSE IF t[i] = NEWLINE THEN Fail
    ELSE ScanString(t, i + 1, Append(acc, t[i]))

\* The one member of a set of one member.  Only({e(x) : x \in {v}}) is e
\* with x standing for the value v, worked out once.
Only(S) == CHOOSE x \in S : TRUE

\* The items of a JSON array of strings, the next item starting at i: the
\* string s, then at j a comma and the next item, or the closing bracket.
RECURSIVE ParseItems(_, _, _)
ParseItems(t, i, acc) ==
    IF i > Len(t) \/ t[i] # QUOTE THEN Fail
    ELSE Only({
        IF ~s.ok THEN Fail
        ELSE Only({
            IF j > Len(t) THEN Fail
            ELSE IF t[j] = ","
            THEN Only({ ParseItems(t, n, Append(acc, s.val)) : n \in {SkipWs(t, j + 1)} })
            ELSE IF t[j] = "]"
            THEN [ok |-> TRUE, pos |-> j + 1, val |-> Append(acc, s.val)]
            ELSE Fail
          : j \in {SkipWs(t, s.pos)} })
      : s \in {ScanString(t, i + 1, <<>>)} })

\* A JSON array of strings whose bracket is at i.
ParseArray(t, i) ==
    Only({
        IF j <= Len(t) /\ t[j] = "]"
        THEN [ok |-> TRUE, pos |-> j + 1, val |-> <<>>]
        ELSE ParseItems(t, j, <<>>)
      : j \in {SkipWs(t, i + 1)} })

\* The value of a member of a JSON object, which starts at a, and what
\* follows it at j: a comma and the next member, or the closing brace.
RECURSIVE ParseMembers(_, _, _)
ParseValue(t, a, acc, key) ==
    IF a > Len(t) \/ t[a] # "[" THEN Fail
    ELSE Only({
        IF ~arr.ok THEN Fail
        ELSE Only({
            IF j > Len(t) THEN Fail
            ELSE IF t[j] = ","
            THEN Only({ ParseMembers(t, n, d) :
                        n \in {SkipWs(t, j + 1)}, d \in {DictSet(acc, key, arr.val)} })
            ELSE IF t[j] = "}"
            THEN [ok |-> TRUE, pos |-> j + 1, val |-> DictSet(acc, key, arr.val)]
            ELSE Fail
          : j \in {SkipWs(t, arr.pos)} })
      : arr \in {ParseArray(t, a)} })

\* The members of a JSON object, the next key starting at i: the key, the
\* colon at c, the value.  A key met again keeps its place and takes the
\* later value, as a Python dict does.
ParseMembers(t, i, acc) ==
    IF i > Len(t) \/ t[i] # QUOTE THEN Fail
    ELSE Only({
        IF ~key.ok THEN Fail
        ELSE Only({
            IF c > Len(t) \/ t[c] # ":" THEN Fail
            ELSE Only({ ParseValue(t, a, acc, key.val) : a \in {SkipWs(t, c + 1)} })
          : c \in {SkipWs(t, key.pos)} })
      : key \in {ScanString(t, i + 1, <<>>)} })

\* A JSON object whose brace is at i.
ParseObject(t, i) ==
    Only({
        IF j <= Len(t) /\ t[j] = "}"
        THEN [ok |-> TRUE, pos |-> j + 1, val |-> <<>>]
        ELSE ParseMembers(t, j, <<>>)
      : j \in {SkipWs(t, i + 1)} })

\* The value that starts at i, the first character of t that is no white
\* space.
ParseTop(t, i) ==
    IF i > Len(t) THEN Fail
    ELSE IF t[i] = "{" THEN ParseObject(t, i)
    ELSE IF t[i] = "[" THEN ParseArray(t, i)
    ELSE IF t[i] = QUOTE THEN ScanString(t, i + 1, <<>>)
    ELSE Fail

\* json.load(f) of the text t.  kind is "dict", "list" or "str" for the
\* Python object returned and "error" for JSONDecodeError, which text after
\* the value raises too.  The values are the ones the manager stores:
\* strings, lists of strings and dicts of lists of strings; a text holding
\* anything else counts as undecodable here.
json_load(t) ==
    Only({
        Only({
            IF ~r.ok \/ SkipWs(t, r.pos) <= Len(t)
            THEN [kind |-> "error", val |-> <<>>]
            ELSE [kind |-> (IF t[i] = "{" THEN "dict"
                            ELSE IF t[i] = "[" THEN "list" ELSE "str"),
                  val |-> r.val]
          : r \in {ParseTop(t, i)} })
      : i \in {SkipWs(t, 1)} })

\* ------------------------------------------------ WordCollectionManager

\* The JSON file of the manager: whether it exists, and its text.
\* last is the call made last: its arguments, what it returned, whether it
\* wrote the file, the file as the call found it, whether it is a remove_word
\* repeating the call before it, and if so what that one returned.
\* procs holds the calls that have read the file and not yet returned, for
\* the runs in which a call is followed step by step.
\* sheet and cache belong to the manager of src/utils/word_handling2.py: the
\* rows of the remote worksheet, and the copy of them that conn.read keeps.
VARIABLES file, last, procs, sheet, cache

vars == <<file, last, procs, sheet, cache>>

\* No call is under way, and the worksheet manager is not in use.
NoCache == [valid |-> FALSE, rows |-> <<>>]

Idle == procs = <<>> /\ sheet = <<>> /\ cache = NoCache

IdleStill == UNCHANGED <<procs, sheet, cache>>

\* {} as returned by a read.
EmptyDict == [kind |-> "dict", val |-> <<>>]

\* _write_data(data): the file is opened for writing and takes the dump.
write_data(data) ==
    [exists |-> TRUE, text |-> json_dump(data)]

\* _read_data(): the object the text decodes to; {} when the file is not
\* found or its text does not decode.
read_data(f) ==
    IF ~f.exists THEN EmptyDict
    ELSE Only({ IF r.kind = "error" THEN EmptyDict ELSE r
                : r \in {json_load(f.text)} })

\* An initialisation that writes {} whatever it finds, which C19 rules out.
initialize_file_always(f) ==
    write_data(<<>>)

\* _initialize_file(): an absent file and a file of size zero are written {}.
initialize_file(f) ==
    IF ~f.exists THEN write_data(<<>>)
    ELSE IF Len(f.text) = 0 THEN write_data(<<>>)
    ELSE f

\* s in t for two str: s occurs in t.
IsSubstr(s, t) ==
    \E i \in 0..(Len(t) - Len(s)) : SubSeq(t, i + 1, i + Len(s)) = s

\* key in data, for the object a read returned.
In(data, key) ==
    CASE data.kind = "dict" -> HasKey(data.val, key)
      [] data.kind = "list" -> \E i \in 1..Len(data.val) : data.val[i] = key
      [] OTHER -> IsSubstr(key, data.val)

\* What a call did: the value returned, whether it raised instead, whether
\* it called _write_data, the file it left, and the object it held in data
\* when it ended.  keys is the list get_all_collections returns; none and
\* words are the None or the list get_words_in_collection returns.
Outcome(ret, raised, f, data) ==
    [ret |-> ret, raised |-> raised, wrote |-> FALSE, file |-> f, data |-> data,
     keys |-> <<>>, none |-> FALSE, words |-> <<>>]

\* A call that wrote its data with _write_data and then returned ret.
Written(ret, data) ==
    [ret |-> ret, raised |-> FALSE, wrote |-> TRUE, file |-> write_data(data.val),
     data |-> data, keys |-> <<>>, none |-> FALSE, words |-> <<>>]

\* An assignment that builds the dict afresh around the one entry and so
\* forgets every other collection, which C20 rules out.
AssignAlone(data, key, val) ==
    [data EXCEPT !.val = <<[k |-> key, v |-> val]>>]

\* data[key] = val on the dict a read returned.
Assign(data, key, val) ==
    [data EXCEPT !.val = DictSet(data.val, key, val)]

\* An add_collection that assigns [] and writes whether or not the name is
\* present, which C2 rules out.
add_collection_overwrite(f, name) ==
    Only({ Written(~In(data, name), Assign(data, name, <<>>))
           : data \in {read_data(f)} })

\* An add_collection that starts from an empty dict where it should start
\* from the dict it read, which C17 rules out of calls run in turn.
add_collection_fresh(f, name) ==
    Only({
        IF In(data, name) THEN Outcome(FALSE, FALSE, f, data)
        ELSE Written(TRUE, Assign(EmptyDict, name, <<>>))
      : data \in {read_data(f)} })

\* add_collection(collection_name)
add_collection(f, name) ==
    Only({
        IF In(data, name) THEN Outcome(FALSE, FALSE, f, data)
        ELSE IF data.kind # "dict" THEN Outcome(FALSE, TRUE, f, data)
        ELSE Written(TRUE, Assign(data, name, <<>>))
      : data \in {read_data(f)} })

\* A duplicate test without lower(), which C1 rules out.
HasWordExact(words, word) ==
    \E i \in 1..Len(words) : words[i] = word

\* any(existing_word.lower() == word.lower() for existing_word in words)
HasWord(words, word) ==
    \E i \in 1..Len(words) : Lower(words[i]) = Lower(word)

\* data[collection_name].append(word); data[collection_name].sort()
AppendSorted(data, name, word) ==
    Only({ Assign(data, name, sorted)
           : sorted \in {ListSort(Append(DictGet(data.val, name), word))} })

\* An add_word that creates the collection it does not find, which C9 rules
\* out.
add_word_create(f, name, word) ==
    Only({
        IF In(data, name) /\ HasWord(DictGet(data.val, name), word)
        THEN Outcome(FALSE, FALSE, f, data)
        ELSE Only({ Written(TRUE, AppendSorted(held, name, word))
                    : held \in {IF In(data, name) THEN data
                                ELSE Assign(data, name, <<>>)} })
      : data \in {read_data(f)} })

\* An add_word without the duplicate test, which C4 rules out.
add_word_unchecked(f, name, word) ==
    Only({
        IF ~In(data, name) THEN Outcome(FALSE, FALSE, f, data)
        ELSE Only({ Written(TRUE, new) : new \in {AppendSorted(data, name, word)} })
      : data \in {read_data(f)} })

\* add_word(collection_name, word)
add_word(f, name, word) ==
    Only({
        IF ~In(data, name) THEN Outcome(FALSE, FALSE, f, data)
        ELSE IF data.kind # "dict" THEN Outcome(FALSE, TRUE, f, data)
        ELSE IF HasWord(DictGet(data.val, name), word)
        THEN Outcome(FALSE, FALSE, f, data)
        ELSE Only({ Written(TRUE, new) : new \in {AppendSorted(data, name, word)} })
      : data \in {read_data(f)} })

\* A search that ends on the last entry when nothing matches, which C5 rules
\* out.
FirstMatchOrLast(words, word) ==
    IF HasWord(words, word)
    THEN CHOOSE i \in 1..Len(words) :
            /\ Lower(words[i]) = Lower(word)
            /\ \A j \in 1..(i - 1) : Lower(words[j]) # Lower(word)
    ELSE Len(words)

\* The loop of remove_word: the place of the first stored word equal to
\* word ignoring case, 0 when the loop ends without one (word_to_remove
\* stays None).
FirstMatch(words, word) ==
    IF HasWord(words, word)
    THEN CHOOSE i \in 1..Len(words) :
            /\ Lower(words[i]) = Lower(word)
            /\ \A j \in 1..(i - 1) : Lower(words[j]) # Lower(word)
    ELSE 0

\* if word_to_remove: None is false, and so is the empty str.
Truthy(words, at) ==
    at # 0 /\ words[at] # <<>>

\* A removal that also deletes the collection once its last word is gone,
\* which C11 rules out.
RemoveAtDropEmpty(data, name, at) ==
    Only({ IF Len(words) = 1
           THEN [data EXCEPT !.val = SelectSeq(data.val, LAMBDA e : e.k # name)]
           ELSE Assign(data, name, ListRemove(words, words[at]))
           : words \in {DictGet(data.val, name)} })

\* data[collection_name].remove(word_to_remove), the word found at place at.
RemoveAt(data, name, at) ==
    Only({ Assign(data, name, ListRemove(words, words[at]))
           : words \in {DictGet(data.val, name)} })

\* A remove_word that reports the removal and does not write it, which C7
\* rules out.
remove_word_unsaved(f, name, word) ==
    Only({
        IF ~In(data, name) THEN Outcome(FALSE, FALSE, f, data)
        ELSE Only({ Outcome(Truthy(DictGet(data.val, name), at), FALSE, f, data)
                    : at \in {FirstMatch(DictGet(data.val, name), word)} })
      : data \in {read_data(f)} })

\* remove_word(collection_name, word)
remove_word(f, name, word) ==
    Only({
        IF ~In(data, name) THEN Outcome(FALSE, FALSE, f, data)
        ELSE IF data.kind # "dict" THEN Outcome(FALSE, TRUE, f, data)
        ELSE Only({
            IF Truthy(DictGet(data.val, name), at)
            THEN Only({ Written(TRUE, new) : new \in {RemoveAt(data, name, at)} })
            ELSE Outcome(FALSE, FALSE, f, data)
          : at \in {FirstMatch(DictGet(data.val, name), word)} })
      : data \in {read_data(f)} })

\* get_all_collections(): list(data.keys()); a list and a str have no keys().
get_all_collections(f) ==
    Only({
        IF data.kind # "dict" THEN Outcome(FALSE, TRUE, f, data)
        ELSE [Outcome(FALSE, FALSE, f, data) EXCEPT !.keys = DictKeys(data.val)]
      : data \in {read_data(f)} })

\* data.get(collection_name, []), which C8 rules out.
get_words_in_collection_default(f, name) ==
    Only({
        [Outcome(FALSE, FALSE, f, data)
            EXCEPT !.words = IF HasKey(data.val, name) THEN DictGet(data.val, name)
                             ELSE <<>>]
      : data \in {read_data(f)} })

\* get_words_in_collection(collection_name): data.get(collection_name); a
\* list and a str have no get().
get_words_in_collection(f, name) ==
    Only({
        IF data.kind # "dict" THEN Outcome(FALSE, TRUE, f, data)
        ELSE IF HasKey(data.val, name)
        THEN [Outcome(FALSE, FALSE, f, data) EXCEPT !.words = DictGet(data.val, name)]
        ELSE [Outcome(FALSE, FALSE, f, data) EXCEPT !.none = TRUE]
      : data \in {read_data(f)} })

\* ---------------------------------------------------------------- actions

\* The name and the word of a call that takes none.
NoArg == <<>>

\* The call is a remove_word that follows a remove_word of the same
\* arguments with no call in between.
Repeats(op, name, word) ==
    op = "remove_word" /\ last.op = op /\ last.c = name /\ last.w = word

\* The record of a call.
Call(op, name, word, out) ==
    [op |-> op, c |-> name, w |-> word, ret |-> out.ret, raised |-> out.raised,
     wrote |-> out.wrote, keys |-> out.keys, none |-> out.none,
     words |-> out.words, before |-> file,
     again |-> Repeats(op, name, word),
     prevret |-> (Repeats(op, name, word) /\ last.ret)]

\* No list of the dict is longer than the bound.
WithinBounds(data) ==
    data.kind = "dict" => \A i \in 1..Len(data.val) : Len(data.val[i].v) <= MaxWords

\* A fresh manager on a directory without the file: the constructor wrote {}.
Init ==
    /\ file = initialize_file([exists |-> FALSE, text |-> <<>>])
    /\ last = [op |-> "init", c |-> NoArg, w |-> NoArg, ret |-> FALSE,
               raised |-> FALSE, wrote |-> TRUE, keys |-> <<>>, none |-> FALSE,
               words |-> <<>>, before |-> [exists |-> FALSE, text |-> <<>>],
               again |-> FALSE, prevret |-> FALSE]
    /\ Idle

\* The page is run again: WordCollectionManager('skribbl_data.json').
Construct ==
    /\ file' = initialize_file(file)
    /\ last' = Call("construct", NoArg, NoArg,
                    [Outcome(FALSE, FALSE, file', EmptyDict) EXCEPT !.wrote = file' # file])
    /\ IdleStill

AddCollection ==
    \E name \in Names :
        \E out \in {add_collection(file, name)} :
            /\ file' = out.file
            /\ last' = Call("add_collection", name, NoArg, out)
            /\ IdleStill

AddWord ==
    \E name \in Names, word \in Words :
        \E out \in {add_word(file, name, word)} :
            /\ WithinBounds(out.data)
            /\ file' = out.file
            /\ last' = Call("add_word", name, word, out)
            /\ IdleStill

RemoveWord ==
    \E name \in Names, word \in Words :
        \E out \in {remove_word(file, name, word)} :
            /\ file' = out.file
            /\ last' = Call("remove_word", name, word, out)
            /\ IdleStill

GetAllCollections ==
    \E out \in {get_all_collections(file)} :
        /\ file' = out.file
        /\ last' = Call("get_all_collections", NoArg, NoArg, out)
        /\ IdleStill

GetWordsInCollection ==
    \E name \in Names :
        \E out \in {get_words_in_collection(file, name)} :
            /\ file' = out.file
            /\ last' = Call("get_words_in_collection", name, NoArg, out)
            /\ IdleStill

Next ==
    \/ Construct
    \/ AddCollection
    \/ AddWord
    \/ RemoveWord
    \/ GetAllCollections
    \/ GetWordsInCollection

Spec == Init /\ [][Next]_vars

\* ------------------------------------------------- write, then read back

\* The datasets handed to _write_data: every dict of at most two
\* collections whose lists hold up to MaxWords words in any order, the words
\* and names made of the characters JSON treats specially.
RTWords ==
    { <<>>, <<QUOTE, "a">>, <<BACKSLASH, "n">>, <<NEWLINE, ",", SPACE>> }

RTNames ==
    { <<"a", QUOTE>>, <<"}", ":">> }

RTLists ==
    UNION { [1..n -> RTWords] : n \in 0..MaxWords }

RTDatasets ==
    { d \in UNION { [1..n -> [k : RTNames, v : RTLists]] : n \in 0..Cardinality(RTNames) } :
        \A i, j \in 1..Len(d) : i # j => d[i].k # d[j].k }

\* A manager is handed the dataset last.data, with no file yet.
RTInit ==
    /\ file = [exists |-> FALSE, text |-> <<>>]
    /\ \E d \in RTDatasets :
          last = [op |-> "dataset", data |-> d, got |-> EmptyDict]
    /\ Idle

\* _write_data(data)
RTWrite ==
    /\ last.op = "dataset"
    /\ file' = write_data(last.data)
    /\ last' = [last EXCEPT !.op = "written"]
    /\ IdleStill

\* _read_data()
RTRead ==
    /\ last.op = "written"
    /\ last' = [last EXCEPT !.op = "read", !.got = read_data(file)]
    /\ UNCHANGED file
    /\ IdleStill

RTNext ==
    \/ RTWrite
    \/ RTRead

SpecRoundTrip == RTInit /\ [][RTNext]_vars

\* ------------------------------------------------- the file as it is found
\* The manager does not own the file: between two calls it can be deleted,
\* emptied, cut short or replaced by any text.  These are the files the
\* reads below find: none, one of size zero, an unfinished dump, three JSON
\* texts that are no dict ([], "a" and ["a\""]) and one sound dataset.
FoundFiles ==
    { [exists |-> FALSE, text |-> <<>>],
      [exists |-> TRUE, text |-> <<>>],
      [exists |-> TRUE, text |-> <<"{">>],
      [exists |-> TRUE, text |-> <<"[", "]">>],
      [exists |-> TRUE, text |-> <<QUOTE, "a", QUOTE>>],
      [exists |-> TRUE, text |-> <<"[", QUOTE, "a", BACKSLASH, QUOTE, QUOTE, "]">>],
      write_data(<<[k |-> <<"a", QUOTE>>, v |-> << <<"a">> >>]>>) }

\* The file is found changed from outside the manager.
FileFound ==
    \E f \in FoundFiles :
        /\ file' = f
        /\ last' = [Call("found", NoArg, NoArg, Outcome(FALSE, FALSE, f, EmptyDict))
                       EXCEPT !.before = f]
        /\ IdleStill

FoundNext ==
    \/ FileFound
    \/ Construct
    \/ AddCollection
    \/ AddWord
    \/ RemoveWord
    \/ GetAllCollections
    \/ GetWordsInCollection

SpecFound == Init /\ [][FoundNext]_vars

\* ------------------------------------------------ a write, step by step
\* _write_data is three steps for anyone else who opens the file: open(..,
\* 'w') empties it, json.dump hands the text to the file object, which
\* passes it on a buffer at a time, and leaving the with block writes the
\* rest.  BufferSize stands for the buffer of the file object, scaled to
\* the texts of this model.
BufferSize == 8

WNames == { <<"a", QUOTE>> }

WWords == { <<"a">>, <<"B">> }

\* open(self.filepath, 'w', encoding='utf-8'): the file exists and is empty.
open_w(f) ==
    [exists |-> TRUE, text |-> <<>>]

\* The file after the next buffer of text has gone out to it.
flush(f, text) ==
    [f EXCEPT !.text = SubSeq(text, 1, Len(f.text) + BufferSize)]

\* The mutating calls of one page run, as handlers on the file f.
Mutations(f) ==
    { [op |-> "add_collection", c |-> name, w |-> NoArg,
       out |-> add_collection(f, name)] : name \in WNames }
    \cup { [op |-> "add_word", c |-> name, w |-> word,
            out |-> add_word(f, name, word)] : name \in WNames, word \in WWords }
    \cup { [op |-> "remove_word", c |-> name, w |-> word,
            out |-> remove_word(f, name, word)] : name \in WNames, word \in WWords }

\* No call is at work on the file: none has started, or the one that had
\* was interrupted and is gone.
NoneWriting ==
    IF procs = <<>> THEN TRUE ELSE procs[1].pc = "interrupted"

\* A call reads the file, changes the dict and opens the file for writing.
WOpen ==
    /\ NoneWriting
    /\ \E m \in Mutations(file) :
           /\ m.out.wrote
           /\ procs' = <<[pc |-> "writing", op |-> m.op, c |-> m.c, w |-> m.w,
                          before |-> file, out |-> m.out]>>
           /\ file' = open_w(file)
    /\ UNCHANGED <<last, sheet, cache>>

\* The dump fills the buffer and the buffer goes out to the file.
WFlush ==
    /\ ~NoneWriting
    /\ Len(procs[1].out.file.text) - Len(file.text) > BufferSize
    /\ file' = flush(file, procs[1].out.file.text)
    /\ UNCHANGED <<last, procs, sheet, cache>>

\* The with block is left: the rest is written and the call returns.
WClose ==
    /\ ~NoneWriting
    /\ file' = procs[1].out.file
    /\ last' = [Call(procs[1].op, procs[1].c, procs[1].w, procs[1].out)
                   EXCEPT !.before = procs[1].before]
    /\ procs' = <<>>
    /\ UNCHANGED <<sheet, cache>>

\* The process is stopped, or the write fails, before the with block is
\* left: the file stays as far as it was written.
WInterrupt ==
    /\ ~NoneWriting
    /\ procs' = <<[procs[1] EXCEPT !.pc = "interrupted"]>>
    /\ UNCHANGED <<file, last, sheet, cache>>

\* Another session's page run lists the collections meanwhile.
WRead ==
    /\ procs # <<>>
    /\ \E out \in {get_all_collections(file)} :
           last' = Call("get_all_collections", NoArg, NoArg, out)
    /\ UNCHANGED <<file, procs, sheet, cache>>

WNext ==
    \/ WOpen
    \/ WFlush
    \/ WClose
    \/ WInterrupt
    \/ WRead

SpecWrite == Init /\ [][WNext]_vars

\* ------------------------------------------------ two sessions, one file
\* Every session runs the page in a thread of its own, on the same file and
\* with no lock: a call reads the file in one step and writes it in a later
\* one.  Each of the two sessions makes one adding call; the file they start
\* on is one that calls made before have left.
RaceFiles ==
    { write_data(<<>>),
      write_data(<<[k |-> <<"a", QUOTE>>, v |-> <<>>]>>),
      write_data(<<[k |-> <<"a", QUOTE>>, v |-> << <<"a">> >>]>>) }

Sessions == {1, 2}

Other(p) == 3 - p

\* The adding calls of a page run, as handlers on the file f.
Additions(f) ==
    { [op |-> "add_collection", c |-> name, w |-> NoArg,
       out |-> add_collection(f, name)] : name \in Names }
    \cup { [op |-> "add_word", c |-> name, w |-> word,
            out |-> add_word(f, name, word)] : name \in Names, word \in WWords }

NotCalled ==
    [pc |-> "idle", op |-> "none", c |-> NoArg, w |-> NoArg,
     out |-> Outcome(FALSE, FALSE, [exists |-> FALSE, text |-> <<>>], EmptyDict),
     raced |-> FALSE]

RaceInit ==
    /\ file \in RaceFiles
    /\ last = [op |-> "race"]
    /\ procs = <<NotCalled, NotCalled>>
    /\ sheet = <<>>
    /\ cache = NoCache

\* Session p calls: data = self._read_data(), then the tests and the change
\* of the dict in memory.  A call that has nothing to write returns here.
\* raced notes that the other session has read and not yet written.
RaceRead(p) ==
    /\ procs[p].pc = "idle"
    /\ \E m \in Additions(file) :
           procs' = [procs EXCEPT ![p] =
                        [pc |-> IF m.out.wrote THEN "write" ELSE "done",
                         op |-> m.op, c |-> m.c, w |-> m.w, out |-> m.out,
                         raced |-> procs[Other(p)].pc = "write"]]
    /\ UNCHANGED <<file, last, sheet, cache>>

\* Session p gets to self._write_data(data) with the dict it holds.
RaceWrite(p) ==
    /\ procs[p].pc = "write"
    /\ file' = procs[p].out.file
    /\ procs' = [procs EXCEPT ![p].pc = "done"]
    /\ UNCHANGED <<last, sheet, cache>>

RaceNext ==
    \E p \in Sessions :
        \/ RaceRead(p)
        \/ RaceWrite(p)

SpecRace == RaceInit /\ [][RaceNext]_vars

\* ------------------------------------------- the worksheet manager
\* src/utils/word_handling2.py keeps the words in the worksheet
\* "collections", one row [collection_name, word] per word.  sheet is the
\* worksheet at the service; cache is what conn.read(.., ttl=60) keeps of
\* its last answer and hands out again until the 60 seconds are over.
MaxRows == 2

SNames == { <<>>, <<"a">>, <<"A">> }

SWords == { <<>>, <<"a">>, <<"A">>, <<"B">> }

\* An empty cell, which pandas reads as NaN.
NaN == <<>>

\* data.dropna(how="all"): the rows whose cells are all empty go.
dropna(rows) ==
    SelectSeq(rows, LAMBDA r : ~(r.collection_name = NaN /\ r.word = NaN))

\* self.conn.read(worksheet=.., ttl=60).  Within the 60 seconds the answer
\* kept is returned and nothing is asked of the service; after them the
\* worksheet is fetched, which can fail (ok is false), and the answer is
\* kept.
conn_read(s, c, ok) ==
    IF c.valid THEN [raised |-> FALSE, rows |-> c.rows, cache |-> c, fetched |-> FALSE]
    ELSE IF ok THEN [raised |-> FALSE, rows |-> s,
                     cache |-> [valid |-> TRUE, rows |-> s], fetched |-> TRUE]
    ELSE [raised |-> TRUE, rows |-> <<>>, cache |-> c, fetched |-> FALSE]

\* _get_data(): the rows read, without the empty ones; an empty table with
\* the two columns when the read raises.
sheet_get_data(s, c, ok) ==
    Only({ IF r.raised THEN [df |-> <<>>, cache |-> r.cache, fetched |-> FALSE]
           ELSE [df |-> dropna(r.rows), cache |-> r.cache, fetched |-> r.fetched]
           : r \in {conn_read(s, c, ok)} })

\* A grouping that takes names differing only in case for one name, which
\* C15 rules out.
GroupSizesNoCase(df) ==
    { [name |-> Lower(df[i].collection_name),
       count |-> Cardinality({ j \in 1..Len(df) :
                                 Lower(df[j].collection_name) = Lower(df[i].collection_name) })]
      : i \in 1..Len(df) }

\* df.groupby('collection_name').size().to_dict(): every name of the column
\* with the number of its rows.
GroupSizes(df) ==
    { [name |-> df[i].collection_name,
       count |-> Cardinality({ j \in 1..Len(df) :
                                 df[j].collection_name = df[i].collection_name })]
      : i \in 1..Len(df) }

\* get_all_collections()
sheet_get_all_collections(s, c, ok) ==
    Only({ [res |-> "counts", raised |-> FALSE, updated |-> FALSE,
            counts |-> IF g.df = <<>> THEN {} ELSE GroupSizes(g.df),
            df |-> g.df, fetched |-> g.fetched, sheet |-> s, cache |-> g.cache]
           : g \in {sheet_get_data(s, c, ok)} })

\* The ways self.conn.update(worksheet=.., data=..) ends.  It is a request
\* to a remote service that replaces the whole worksheet: it returns with
\* the worksheet replaced, or it raises, and then the worksheet is as it
\* was, or already cleared, or already replaced.
UpdateEnds == { "replaced", "refused", "cleared", "unconfirmed" }

conn_update(s, data, end) ==
    [raised |-> end # "replaced",
     sheet |-> CASE end = "refused" -> s
                 [] end = "cleared" -> <<>>
                 [] OTHER -> data]

\* The rows of df whose collection_name is name when both are lowercased,
\* and the duplicate test on their words.
collection_df(df, name) ==
    SelectSeq(df, LAMBDA r : Lower(r.collection_name) = Lower(name))

existing_words(df, name) ==
    { Lower(collection_df(df, name)[i].word) : i \in 1..Len(collection_df(df, name)) }

\* An add_word that lets the error of the update pass to its caller, which
\* C16 rules out.
sheet_add_word_uncaught(s, c, ok, end, name, word) ==
    IF name = <<>> \/ word = <<>>
    THEN [res |-> "error_empty", raised |-> FALSE, updated |-> FALSE, counts |-> {},
          df |-> <<>>, fetched |-> FALSE, sheet |-> s, cache |-> c]
    ELSE Only({
        IF Lower(word) \in existing_words(g.df, name)
        THEN [res |-> "error_duplicate", raised |-> FALSE, updated |-> FALSE,
              counts |-> {}, df |-> g.df, fetched |-> g.fetched,
              sheet |-> s, cache |-> g.cache]
        ELSE Only({ [res |-> IF u.raised THEN "none" ELSE "success",
                     raised |-> u.raised, updated |-> TRUE, counts |-> {},
                     df |-> g.df, fetched |-> g.fetched,
                     sheet |-> u.sheet, cache |-> g.cache]
                    : u \in {conn_update(s, Append(g.df,
                                 [collection_name |-> name, word |-> word]), end)} })
      : g \in {sheet_get_data(s, c, ok)} })

\* add_word(collection_name, word).  res is the message returned.
sheet_add_word(s, c, ok, end, name, word) ==
    IF name = <<>> \/ word = <<>>
    THEN [res |-> "error_empty", raised |-> FALSE, updated |-> FALSE, counts |-> {},
          df |-> <<>>, fetched |-> FALSE, sheet |-> s, cache |-> c]
    ELSE Only({
        IF Lower(word) \in existing_words(g.df, name)
        THEN [res |-> "error_duplicate", raised |-> FALSE, updated |-> FALSE,
              counts |-> {}, df |-> g.df, fetched |-> g.fetched,
              sheet |-> s, cache |-> g.cache]
        ELSE Only({ [res |-> IF u.raised THEN "error_write" ELSE "success",
                     raised |-> FALSE, updated |-> TRUE, counts |-> {},
                     df |-> g.df, fetched |-> g.fetched,
                     sheet |-> u.sheet, cache |-> g.cache]
                    : u \in {conn_update(s, Append(g.df,
                                 [collection_name |-> name, word |-> word]), end)} })
      : g \in {sheet_get_data(s, c, ok)} })

\* What a call of the worksheet manager leaves in last: the call, what it
\* returned, the table it worked on, whether that table was fetched by
\* this call, how the update ended, and the worksheet before the call.
SheetCall(op, name, word, end, out) ==
    [op |-> op, c |-> name, w |-> word, res |-> out.res, raised |-> out.raised,
     updated |-> out.updated, counts |-> out.counts, df |-> out.df,
     fetched |-> out.fetched, end |-> IF out.updated THEN end ELSE "none",
     before |-> sheet]

\* WordCollectionManager(): the connection is made; the worksheet is empty
\* and nothing has been read yet.
SheetInit ==
    /\ sheet = <<>>
    /\ cache = NoCache
    /\ last = [op |-> "init", c |-> NoArg, w |-> NoArg, res |-> "none",
               raised |-> FALSE, updated |-> FALSE, counts |-> {}, df |-> <<>>,
               fetched |-> FALSE, end |-> "none", before |-> <<>>]
    /\ file = [exists |-> FALSE, text |-> <<>>]
    /\ procs = <<>>

SheetAddWord ==
    \E name \in SNames, word \in SWords, ok \in BOOLEAN, end \in UpdateEnds :
        \E out \in {sheet_add_word(sheet, cache, ok, end, name, word)} :
            /\ Len(out.sheet) <= MaxRows
            /\ sheet' = out.sheet
            /\ cache' = out.cache
            /\ last' = SheetCall("add_word", name, word, end, out)
            /\ UNCHANGED <<file, procs>>

SheetGetAllCollections ==
    \E ok \in BOOLEAN :
        \E out \in {sheet_get_all_collections(sheet, cache, ok)} :
            /\ sheet' = out.sheet
            /\ cache' = out.cache
            /\ last' = SheetCall("get_all_collections", NoArg, NoArg, "none", out)
            /\ UNCHANGED <<file, procs>>

\* The 60 seconds of ttl=60 are over: the answer kept is dropped.
CacheExpires ==
    /\ cache.valid
    /\ cache' = NoCache
    /\ UNCHANGED <<file, last, procs, sheet>>

SheetNext ==
    \/ SheetAddWord
    \/ SheetGetAllCollections
    \/ CacheExpires

SpecSheet == SheetInit /\ [][SheetNext]_vars

\* ------------------------------------------------------------- properties

\* The dataset a read of the file f yields.
Dataset(f) == read_data(f).val

\* The dataset the last call found, and the dataset now stored.
Before == Dataset(last.before)
Stored == Dataset(file)

\* The words of collection name in the dataset d, <<>> when d has no such
\* collection.
WordsOf(d, name) ==
    IF HasKey(d, name) THEN DictGet(d, name) ELSE <<>>

\* Two words are the same word: equal under case-insensitive comparison.
SameWord(s, t) == Lower(s) = Lower(t)

\* The list holds a word that is the same word as word.
Holds(words, word) ==
    \E i \in 1..Len(words) : SameWord(words[i], word)

\* The call returned normally and touched nothing: no write, the same file.
NoOp ==
    ~last.raised /\ ~last.wrote /\ file = last.before

\* C1: add_word(c, w) on a collection c that already holds the same word
\* (ignoring case) returns False and changes nothing, so the spelling stored
\* first stays.
C1_DuplicateWordRejected ==
    (last.op = "add_word" /\ HasKey(Before, last.c)
        /\ Holds(WordsOf(Before, last.c), last.w))
    => (~last.ret /\ NoOp /\ WordsOf(Stored, last.c) = WordsOf(Before, last.c))

\* "Cat" is stored and "cat" was added: another spelling of a stored word.
C1_Witness ==
    /\ last.op = "add_word"
    /\ ~last.ret
    /\ \E i \in 1..Len(WordsOf(Before, last.c)) :
          /\ SameWord(WordsOf(Before, last.c)[i], last.w)
          /\ WordsOf(Before, last.c)[i] # last.w
          /\ WordsOf(Stored, last.c) = <<WordsOf(Before, last.c)[i]>>

\* C2: add_collection(name) on a present name returns False and changes
\* nothing (one entry of that name, its words kept); on an absent name it
\* returns True and the file then holds that name with an empty list.
C2_AddCollection ==
    last.op = "add_collection" =>
        IF HasKey(Before, last.c)
        THEN /\ ~last.ret /\ NoOp
             /\ Cardinality({i \in 1..Len(Stored) : Stored[i].k = last.c}) = 1
             /\ WordsOf(Stored, last.c) = WordsOf(Before, last.c)
        ELSE /\ last.ret /\ ~last.raised /\ last.wrote
             /\ Cardinality({i \in 1..Len(Stored) : Stored[i].k = last.c}) = 1
             /\ WordsOf(Stored, last.c) = <<>>

\* A collection that has words was created a second time.
C2_Witness ==
    /\ last.op = "add_collection"
    /\ ~last.ret
    /\ WordsOf(Before, last.c) # <<>>

\* Alphabetical order: the order of a dictionary, which does not put every
\* upper-case letter before every lower-case one.
AlphaLessEq(s, t) == ~StrLess(Lower(t), Lower(s))

IsAlphabetical(words) ==
    \A i, j \in 1..Len(words) : i < j => AlphaLessEq(words[i], words[j])

\* C3: every stored word list is sorted alphabetically.
C3_SortedAlphabetically ==
    \A i \in 1..Len(Stored) : IsAlphabetical(Stored[i].v)

\* C4: no collection holds two words that are the same word ignoring case.
C4_NoDuplicateWords ==
    \A n \in 1..Len(Stored) :
        \A i, j \in 1..Len(Stored[n].v) :
            i # j => ~SameWord(Stored[n].v[i], Stored[n].v[j])

\* A word was added to a collection that had a word already, after an
\* add of a stored word in another spelling could have been tried.
C4_Witness ==
    /\ last.op = "add_word"
    /\ last.ret
    /\ Len(WordsOf(Stored, last.c)) = MaxWords
    /\ \E i \in 1..Len(WordsOf(Stored, last.c)) :
          \E w \in Words : w # WordsOf(Stored, last.c)[i]
                           /\ SameWord(w, WordsOf(Stored, last.c)[i])

\* C5: remove_word(c, w) on a collection c that holds no word equal to w
\* ignoring case returns False, leaves the list as it was and writes nothing.
C5_RemoveAbsentWord ==
    (last.op = "remove_word" /\ HasKey(Before, last.c)
        /\ ~Holds(WordsOf(Before, last.c), last.w))
    => (~last.ret /\ NoOp /\ WordsOf(Stored, last.c) = WordsOf(Before, last.c))

\* A word was removed from a collection that holds other words only.
C5_Witness ==
    /\ last.op = "remove_word"
    /\ HasKey(Before, last.c)
    /\ Len(WordsOf(Before, last.c)) = MaxWords
    /\ ~Holds(WordsOf(Before, last.c), last.w)
    /\ ~last.ret

\* The list words with its entry at place at taken out.
Without(words, at) ==
    SubSeq(words, 1, at - 1) \o SubSeq(words, at + 1, Len(words))

\* C6: remove_word(c, w), for every str w, on a collection c that holds a
\* word equal to w ignoring case returns True, and the list of c is then the
\* prior list without that one entry.
C6_RemovePresentWord ==
    (last.op = "remove_word" /\ HasKey(Before, last.c)
        /\ Holds(WordsOf(Before, last.c), last.w))
    => /\ last.ret /\ ~last.raised /\ last.wrote
       /\ \E at \in 1..Len(WordsOf(Before, last.c)) :
             /\ SameWord(WordsOf(Before, last.c)[at], last.w)
             /\ WordsOf(Stored, last.c) = Without(WordsOf(Before, last.c), at)

\* C7: remove_word(c, w) called again right after remove_word(c, w) returns
\* False and changes nothing, whatever the first call returned.
C7_SecondRemoveFindsNothing ==
    (last.op = "remove_word" /\ last.again) => (~last.ret /\ NoOp)

\* The first of the two calls removed the word.
C7_Witness ==
    /\ last.op = "remove_word"
    /\ last.again
    /\ last.prevret
    /\ ~last.ret

\* C8: get_all_collections on an empty store returns an empty list, and
\* get_words_in_collection(c) returns None exactly when c is no collection
\* of the dataset and the list of c, empty or not, when it is one.
C8_ReadsTellAbsentFromEmpty ==
    /\ (last.op = "get_all_collections" /\ Before = <<>>)
        => (~last.raised /\ last.keys = <<>>)
    /\ last.op = "get_words_in_collection"
        => /\ ~last.raised
           /\ last.none <=> ~HasKey(Before, last.c)
           /\ HasKey(Before, last.c) => last.words = DictGet(Before, last.c)

\* The words of an absent collection were asked for while another, empty
\* collection exists.
C8_Witness ==
    /\ last.op = "get_words_in_collection"
    /\ last.none
    /\ \E i \in 1..Len(Before) : Before[i].v = <<>>

\* C9: add_word and remove_word on a name that is no collection return
\* False, do not create it and leave the dataset as it was.
C9_CollectionNotFound ==
    (last.op \in {"add_word", "remove_word"} /\ ~HasKey(Before, last.c))
    => (~last.ret /\ NoOp /\ ~HasKey(Stored, last.c) /\ Stored = Before)

\* A word was added to an absent collection of a store that has another one.
C9_Witness ==
    /\ last.op = "add_word"
    /\ ~HasKey(Before, last.c)
    /\ Before # <<>>
    /\ ~last.ret

\* C10: _write_data(d) followed by _read_data() returns a dict equal to d:
\* the same collection names with the same words.
C10_RoundTrip ==
    last.op = "read" => last.got = [kind |-> "dict", val |-> last.data]

\* Two collections were read back whose names and words hold a quotation
\* mark, a backslash and a line feed.
C10_Witness ==
    /\ last.op = "read"
    /\ Len(last.data) = 2
    /\ \E i \in 1..2 : \E j \in 1..Len(last.data[i].v) :
          last.data[i].v[j] = <<NEWLINE, ",", SPACE>>
    /\ \E i \in 1..2 : \E j \in 1..Len(last.data[i].v) :
          last.data[i].v[j] = <<BACKSLASH, "n">>
    /\ last.got.val = last.data

\* C11: no operation deletes a collection: every name the dataset held before
\* a call is still a name of the dataset after it, get_all_collections lists
\* every stored name, and a remove_word that takes the last word of a
\* collection leaves the name there with an empty list.
C11_CollectionsNeverDeleted ==
    /\ \A i \in 1..Len(Before) : HasKey(Stored, Before[i].k)
    /\ (last.op = "get_all_collections" /\ ~last.raised)
           => last.keys = DictKeys(Stored)
    /\ (last.op = "remove_word" /\ last.ret /\ Len(WordsOf(Before, last.c)) = 1)
           => HasKey(Stored, last.c) /\ DictGet(Stored, last.c) = <<>>

\* A remove_word has taken the only word of a collection, and the collection
\* is still stored, empty.
C11_Witness ==
    /\ last.op = "remove_word" /\ last.ret
    /\ Len(WordsOf(Before, last.c)) = 1
    /\ HasKey(Stored, last.c)
    /\ DictGet(Stored, last.c) = <<>>

\* The entries of the dataset d other than the one of collection name.
Others(d, name) ==
    SelectSeq(d, LAMBDA e : e.k # name)

\* C20: a successful call changes only the collection it names. After
\* add_word(c, w) the list of c is the prior words with w, spelled as given,
\* put in; after remove_word(c, w) only the list of c differs; after
\* add_collection(n) the dataset is the prior one and n with an empty list;
\* every other collection keeps its name and its list, and neither
\* get_all_collections nor get_words_in_collection changes anything.
C20_OnlyTheTargetChanges ==
    /\ (last.op \in {"add_word", "remove_word"} /\ last.ret)
           => /\ DictKeys(Stored) = DictKeys(Before)
              /\ Others(Stored, last.c) = Others(Before, last.c)
    /\ (last.op = "add_word" /\ last.ret)
           => \E i \in 1..Len(WordsOf(Stored, last.c)) :
                  /\ WordsOf(Stored, last.c)[i] = last.w
                  /\ Without(WordsOf(Stored, last.c), i) = WordsOf(Before, last.c)
    /\ (last.op = "add_collection" /\ last.ret)
           => Stored = Append(Before, [k |-> last.c, v |-> <<>>])
    /\ (last.op \in {"get_all_collections", "get_words_in_collection"})
           => NoOp

\* A word went into one collection while another collection held a word, and
\* that other collection is as it was.
C20_Witness ==
    /\ last.op = "add_word" /\ last.ret
    /\ \E i \in 1..Len(Before) : Before[i].k # last.c /\ Before[i].v # <<>>
    /\ Others(Stored, last.c) = Others(Before, last.c)
    /\ Holds(WordsOf(Stored, last.c), last.w)

\* The file f does not hold a well-formed mapping: it is absent, or its text
\* is empty, does not decode, or decodes to something that is no dict.
Malformed(f) ==
    ~f.exists \/ json_load(f.text).kind # "dict"

\* C12: a read of a file that does not hold a well-formed mapping (absent,
\* empty, undecodable, or decodable to something that is no mapping) returns
\* the empty mapping and raises nothing, so every operation on such a file
\* returns normally.
C12_MalformedReadsAsEmpty ==
    (last.op \notin {"init", "found", "construct"} /\ Malformed(last.before))
        => /\ read_data(last.before) = EmptyDict
           /\ ~last.raised

\* C19: constructing the manager writes {} only when the file is absent or
\* of size zero; any other file, a non-empty dataset among them, is left as
\* it is, and in every case a read returns after the construction what it
\* returned before it.
C19_ConstructionKeepsTheFile ==
    last.op = "construct"
        => /\ IF ~last.before.exists \/ Len(last.before.text) = 0
              THEN file = write_data(<<>>) /\ last.wrote
              ELSE file = last.before /\ ~last.wrote
           /\ read_data(file) = read_data(last.before)

\* The manager was constructed on a file holding a collection with a word,
\* and the file is as it was.
C19_Witness ==
    /\ last.op = "construct"
    /\ ~Malformed(last.before)
    /\ \E i \in 1..Len(Before) : Before[i].v # <<>>
    /\ file = last.before

\* C13: a read at any time yields the whole dataset from before the
\* mutation or the whole dataset after it: while a call is writing, and
\* after a write was interrupted, the file reads as one of the two.
C13_NoPartialWrite ==
    procs # <<>>
        => read_data(file) \in {read_data(procs[1].before), procs[1].out.data}

\* The change the call of session p made is in the dataset d: the collection
\* it created is there, the word it added is in its collection.
Applied(d, p) ==
    /\ HasKey(d, procs[p].c)
    /\ procs[p].op = "add_word"
           => \E i \in 1..Len(DictGet(d, procs[p].c)) :
                  DictGet(d, procs[p].c)[i] = procs[p].w

\* Both sessions' calls have returned True.
BothSucceeded ==
    \A p \in Sessions : procs[p].pc = "done" /\ procs[p].out.ret

\* One call read while the other had read and not yet written.
Raced ==
    \E p \in Sessions : procs[p].raced

\* C17: two mutating calls on the same file that run one after the other
\* and both report success both leave their change in the dataset; when
\* their read and write steps interleave, a state is reached in which both
\* have reported success and the dataset holds only one of the two changes
\* (C17_Witness is that state).
C17_InTurnBothChangesStay ==
    (BothSucceeded /\ ~Raced)
        => \A p \in Sessions : Applied(Stored, p)

\* Both calls interleaved and reported success, and the change of one of
\* them is not in the dataset: the last write won.
C17_Witness ==
    /\ BothSucceeded
    /\ Raced
    /\ \E p \in Sessions : ~Applied(Stored, p) /\ Applied(Stored, Other(p))

\* The row add_word(c, w) appends.
Row(c, w) == [collection_name |-> c, word |-> w]

\* The number of rows of the table t that carry the name n.
RowsNamed(t, n) ==
    Cardinality({ i \in 1..Len(t) : t[i].collection_name = n })

\* counts maps every collection name of the table t, and nothing else, to
\* the number of its rows.
CountsMatch(counts, t) ==
    /\ \A e \in counts : e.count >= 1 /\ e.count = RowsNamed(t, e.name)
    /\ \A i \in 1..Len(t) : \E e \in counts : e.name = t[i].collection_name
    /\ \A e1, e2 \in counts : e1.name = e2.name => e1 = e2

\* C14: every successful add_word of the worksheet manager replaces the
\* remote table by the table as it was just before the call plus the one
\* new row, also when several adds fall within the 60 seconds of the read
\* cache, so that no word added with success is lost to a later add.
C14_AddKeepsEveryRow ==
    (last.op = "add_word" /\ last.res = "success")
        => sheet = Append(last.before, Row(last.c, last.w))

C18_CollectionNamesCaseSensitive ==
    (last.op = "add_word" /\ last.res = "error_duplicate")
        => \E i \in 1..Len(last.df) :
               /\ last.df[i].collection_name = last.c
               /\ Lower(last.df[i].word) = Lower(last.w)

====
